---- MODULE Spec2Model ----
(***************************************************************************)
(* State-machine model of yc_scraper.py: the link discovery loop           *)
(* (scroll_and_extract_links), the bounded fetch engine with its two       *)
(* attempt retry (scrape_company_details) and the batching orchestrator    *)
(* with interim checkpoints and the final export (main).                   *)
(*                                                                         *)
(* Strings of the program are modelled as sequences of segments: an href   *)
(* is a sequence of path segments and an absolute URL is the origin        *)
(* followed by the segments of the href.                                   *)
(***************************************************************************)
EXTENDS Integers, Sequences, FiniteSets, TLC

(***************************************************************************)
(* Configuration.  The program's values (500, 3, 50 and the ceiling 150)   *)
(* are scaled down; the relations the program runs under are kept:         *)
(* CONCURRENCY_LIMIT < BATCH_SIZE < TARGET_COUNT.                          *)
(***************************************************************************)
TARGET_COUNT == 4

CONCURRENCY_LIMIT == 2

BATCH_SIZE == 3

MAX_SCROLL_ATTEMPTS == 2

\* The profile documents the founder enrichment is run on: the longest inner
\* text, in words, and the longest href, in pieces.
MaxTokens == 4

MaxPieces == 4

\* range(2) of line 49.
ATTEMPT_RANGE == 2

ORIGIN == "https://www.ycombinator.com"

PROFILE_PREFIX == "/companies/"

(***************************************************************************)
(* The directory that the Render Client serves.  Slugs names the company   *)
(* profiles the directory may list; there is one more than TARGET_COUNT,   *)
(* so that a collection pass can overshoot the target.                     *)
(***************************************************************************)
Slugs == <<"airbnb", "brex", "coinbase", "doordash", "eightsleep", "faire", "gusto">>

NumProfiles == TARGET_COUNT + 1

ProfileHref(j) == <<PROFILE_PREFIX, Slugs[j]>>

\* The anchors of the directory page in document order: a link outside the
\* profile path, a link that holds the profile path but not as a prefix, the
\* first profile twice (the same card linked twice) and the other profiles.
Listing ==
    <<  <<"/about">>, <<"/redirect?to=", PROFILE_PREFIX, "zed">>, ProfileHref(1)  >>
    \o [j \in 1..NumProfiles |-> ProfileHref(j)]

\* The rendered document is the first k anchors of the listing.
Documents == 0..Len(Listing)

(***************************************************************************)
(* Pure helpers of scroll_and_extract_links.                               *)
(***************************************************************************)
\* CSS selector a[href^="/companies/"]: the href begins with the prefix.
SelectorMatches(href) == Len(href) >= 1 /\ href[1] = PROFILE_PREFIX

\* page.locator('a[href^="/companies/"]').all() on the document of k anchors.
LocatorAll(k) == SelectSeq(SubSeq(Listing, 1, k), SelectorMatches)

\* `href and "/companies/" in href`
HrefAccepted(href) == Len(href) > 0 /\ \E n \in 1..Len(href) : href[n] = PROFILE_PREFIX

\* f"https://www.ycombinator.com{href}"
FullUrl(href) == <<ORIGIN>> \o href

\* The for loop over links: every accepted href is added to the set.
CollectInto(links, anchors) ==
    links \cup {FullUrl(anchors[n]) : n \in {m \in 1..Len(anchors) : HrefAccepted(anchors[m])}}

\* Variant: the ceiling is tested with <=, which allows one more round.
LoopCondition_OneMore(links, attempts, target) ==
    Cardinality(links) < target /\ attempts <= MAX_SCROLL_ATTEMPTS

\* while len(company_links) < target_count and scroll_attempts < 150
LoopCondition(links, attempts, target) ==
    Cardinality(links) < target /\ attempts < MAX_SCROLL_ATTEMPTS

Min(a, b) == IF a < b THEN a ELSE b

\* All the orders in which list(a_set) may enumerate the set S, cut to n entries.
RECURSIVE Arrangements(_, _)
Arrangements(S, n) ==
    IF n = 0 \/ S = {} THEN {<<>>}
    ELSE UNION {{<<x>> \o rest : rest \in Arrangements(S \ {x}, n - 1)} : x \in S}

\* Variant: the list is returned without the slice.
ListTruncated_NoSlice(links, target) == Arrangements(links, Cardinality(links))

\* list(company_links)[:target_count]: the iteration order of a set is arbitrary.
ListTruncated(links, target) == Arrangements(links, Min(target, Cardinality(links)))

(***************************************************************************)
(* Pure helpers of scrape_company_details and main.                        *)
(***************************************************************************)
\* The heading the profile page at `url` renders: the company's slug.
Heading(url) == url[Len(url)]

\* The dictionary returned at lines 112-118 (the fields other than the name are
\* left out: no statement checked here reads them).
SuccessRecord(url) == [CompanyName |-> Heading(url)]

\* {"Company Name": "Error", "URL": url}
FailureRecord(url) == [CompanyName |-> "Error", URL |-> url]

\* A value of Python's Optional: <<>> is None, <<r>> is the record r.
None == <<>>

Some(r) == <<r>>

\* Variant: the test of line 122 reads `attempt == 2`, which no round satisfies.
ExceptOutcome_NeverGivesUp(att, url) ==
    IF att = 2 THEN [pc |-> "returned", ret |-> Some(FailureRecord(url))]
    ELSE [pc |-> "sleep", ret |-> None]

\* Variant: the test of line 122 reads `attempt == 0`: no retry is made.
ExceptOutcome_GivesUpEarly(att, url) ==
    IF att = 0 THEN [pc |-> "returned", ret |-> Some(FailureRecord(url))]
    ELSE [pc |-> "sleep", ret |-> None]

\* What the except block does once page.close() has returned (lines 122-124):
\* on the second attempt it returns the placeholder, otherwise it sleeps.
ExceptOutcome(att, url) ==
    IF att = 1 THEN [pc |-> "returned", ret |-> Some(FailureRecord(url))]
    ELSE [pc |-> "sleep", ret |-> None]

RECURSIVE Unwrap(_)
Unwrap(data) ==
    IF data = <<>> THEN <<>>
    ELSE (IF Head(data) = None THEN <<>> ELSE Head(data)) \o Unwrap(Tail(data))

\* Variant: results = [r for r in batch_data if r is not None].
Extend_Replace(res, batch_data) == Unwrap(batch_data)

\* results.extend([r for r in batch_data if r is not None])
Extend(res, batch_data) == res \o Unwrap(batch_data)

\* Variant: the slice stops one short, urls[i:i + BATCH_SIZE - 1].
BatchSlice_OneShort(us, off) == SubSeq(us, off + 1, Min(off + BATCH_SIZE - 1, Len(us)))

\* Variant: the interim save writes the records of the batch just joined.
InterimRows_BatchOnly(res, batch_data) == Unwrap(batch_data)

\* pd.DataFrame(results) of line 158: the rows of the interim save are all the
\* records accumulated so far, not those of batch_data.
InterimRows(res, batch_data) == res

\* urls[i:i + BATCH_SIZE]
BatchSlice(us, off) == SubSeq(us, off + 1, Min(off + BATCH_SIZE, Len(us)))

\* The exceptions the sink can raise at the interim save, and the one that the
\* `except PermissionError` clause of line 159 catches.
SinkOutcomes == {"ok", "PermissionError", "OSError"}

CheckpointCaught(outcome) == outcome = "PermissionError"

\* A fresh task: the coroutine exists and waits for the semaphore.
NewTask(url) ==
    [pc |-> "pending", url |-> url, attempt |-> 0, ret |-> None, tries |-> 0, fails |-> 0,
     open |-> 0, waitfault |-> FALSE, extracted |-> FALSE]

(***************************************************************************)
(* The founder enrichment of lines 82-107.  A string is the sequence of    *)
(* its characters.                                                         *)
(***************************************************************************)
WHITESPACE == {" ", "\n"}

\* sub in text, for two strings.
Contains(text, sub) ==
    \E k \in 0..(Len(text) - Len(sub)) : SubSeq(text, k + 1, k + Len(sub)) = sub

RECURSIVE LStrip(_, _)
LStrip(text, chars) ==
    IF text # <<>> /\ Head(text) \in chars THEN LStrip(Tail(text), chars) ELSE text

RECURSIVE RStrip(_, _)
RStrip(text, chars) ==
    IF text # <<>> /\ text[Len(text)] \in chars
    THEN RStrip(SubSeq(text, 1, Len(text) - 1), chars)
    ELSE text

\* text.strip()
Strip(text) == RStrip(LStrip(text, WHITESPACE), WHITESPACE)

\* The first run of characters of text that are not in chars.
RECURSIVE FirstRun(_, _)
FirstRun(text, chars) ==
    IF text = <<>> \/ Head(text) \in chars THEN <<>>
    ELSE <<Head(text)>> \o FirstRun(Tail(text), chars)

\* text.split(): the runs of characters between whitespace, none of them empty.
RECURSIVE Split(_)
Split(text) ==
    LET rest == LStrip(text, WHITESPACE) IN
        IF rest = <<>> THEN <<>>
        ELSE LET word == FirstRun(rest, WHITESPACE) IN
                <<word>> \o Split(SubSeq(rest, Len(word) + 1, Len(rest)))

\* The list of line 104.
blacklist ==
    << <<"F", "o", "u", "n", "d", "e", "r", "s">>,
       <<"J", "o", "b", "s">>,
       <<"B", "l", "o", "g">>,
       <<"T", "e", "a", "m">>,
       <<"C", "o", "m", "p", "a", "n", "y">>,
       <<"L", "a", "u", "n", "c", "h">>,
       <<"N", "e", "w", "s">> >>

\* Lines 103-105: `0 < len(text.split()) <= 3` and
\* `not any(word in text for word in blacklist)`, where `word in text` is the
\* substring test of two strings.
NameAccepted(text) ==
    /\ 0 < Len(Split(text))
    /\ Len(Split(text)) <= 3
    /\ ~\E k \in 1..Len(blacklist) : Contains(text, blacklist[k])

\* Lines 100-107, over the inner texts of the elements in the order visited.
RECURSIVE FounderNames(_, _)
FounderNames(texts, names) ==
    IF texts = <<>> THEN names
    ELSE LET text == Strip(Head(texts)) IN
            FounderNames(Tail(texts),
                IF NameAccepted(text) /\ \A k \in 1..Len(names) : names[k] # text
                THEN Append(names, text)
                ELSE names)

\* link.split('?')[0]
CutAtQuery(link) == FirstRun(link, {"?"})

\* Variant: the trailing slashes are stripped before the query is cut off.
CleanLink_StripFirst(link) == CutAtQuery(RStrip(link, {"/"}))

\* Line 92: link.split('?')[0].rstrip('/')
CleanLink(link) == RStrip(CutAtQuery(link), {"/"})

LINKEDIN_IN == <<"l", "i", "n", "k", "e", "d", "i", "n", ".", "c", "o", "m", "/", "i", "n", "/">>

\* The selector a[href*="linkedin.com/in/"] of line 87.
LinkSelectorMatches(href) == Contains(href, LINKEDIN_IN)

\* Lines 88-94, over the href attributes of the anchors in document order.
RECURSIVE FounderLinks(_, _)
FounderLinks(hrefs, links) ==
    IF hrefs = <<>> THEN links
    ELSE LET link == Head(hrefs)
             clean_link == CleanLink(link) IN
            FounderLinks(Tail(hrefs),
                IF link # <<>> /\ \A k \in 1..Len(links) : links[k] # clean_link
                THEN Append(links, clean_link)
                ELSE links)

\* Profile documents to run the enrichment on.  An inner text is up to
\* MaxTokens words joined by single spaces, bare or padded with whitespace; an
\* href is up to MaxPieces pieces.
NameTokens ==
    { <<"J", "a", "n", "e">>, <<"D", "o", "e">>, <<"A">>,
      <<"N", "e", "w", "s">>, <<"N", "e", "w", "s", "o", "m">>,
      <<"F", "o", "u", "n", "d", "e", "r", "s">> }

HrefPieces == {LINKEDIN_IN, <<"a">>, <<"/">>, <<"?">>}

RECURSIVE Concat(_, _)
Concat(parts, sep) ==
    IF parts = <<>> THEN <<>>
    ELSE IF Len(parts) = 1 THEN Head(parts)
    ELSE Head(parts) \o sep \o Concat(Tail(parts), sep)

InnerTexts ==
    UNION {{Concat(ws, <<" ">>), <<" ">> \o Concat(ws, <<" ">>) \o <<" ", "\n">>} :
            ws \in UNION {[1..n -> NameTokens] : n \in 0..MaxTokens}}

Hrefs == {Concat(ps, <<>>) : ps \in UNION {[1..n -> HrefPieces] : n \in 0..MaxPieces}}

(***************************************************************************)
(* State.                                                                  *)
(***************************************************************************)
VARIABLES
    mainpc,          \* position of main / scroll_and_extract_links
    loaded,          \* the rendered directory document: number of anchors loaded
    company_links,   \* the set company_links
    scroll_attempts, \* the counter scroll_attempts
    urls,            \* the list returned by scroll_and_extract_links
    i,               \* the loop variable of `for i in range(0, len(urls), BATCH_SIZE)`
    tasks,           \* the coroutines of the current batch
    semaphore,       \* the value of asyncio.Semaphore(CONCURRENCY_LIMIT)
    results,         \* the list results
    firstDone,       \* history: the task of the current batch that returned first
    checkpoints,     \* history: the rows given to each interim to_csv, with its outcome
    finals,          \* history: the rows given to each final to_csv
    abortCause,      \* history: the call whose exception ended the run
    extractpc,       \* position of the founder enrichment when it is run on its own
    li_hrefs,        \* the href attributes of the anchors of the profile document
    name_texts,      \* the inner texts of its div.font-bold and h3 elements
    founder_links,   \* the list founder_links
    founder_names    \* the list founder_names

vars == <<mainpc, loaded, company_links, scroll_attempts, urls, i, tasks, semaphore,
          results, firstDone, checkpoints, finals, abortCause,
          extractpc, li_hrefs, name_texts, founder_links, founder_names>>

extractVars == <<extractpc, li_hrefs, name_texts, founder_links, founder_names>>

discoveryVars == <<loaded, company_links, scroll_attempts, urls>>

fetchVars == <<i, tasks, semaphore, results, firstDone>>

historyVars == <<checkpoints, finals>>

Init ==
    /\ mainpc = "goto"
    /\ loaded = 0
    /\ company_links = {}
    /\ scroll_attempts = 0
    /\ urls = <<>>
    /\ i = 0
    /\ tasks = <<>>
    /\ semaphore = CONCURRENCY_LIMIT
    /\ results = <<>>
    /\ firstDone = 0
    /\ checkpoints = <<>>
    /\ finals = <<>>
    /\ abortCause = "none"
    /\ extractpc = "idle"
    /\ li_hrefs = <<>>
    /\ name_texts = <<>>
    /\ founder_links = <<>>
    /\ founder_names = <<>>

\* An exception that nothing catches leaves main: the run is over.
Abort(cause) ==
    /\ mainpc' = "aborted"
    /\ abortCause' = cause

\* Variant: gather hands over as soon as one task has returned.
GatherDone_FirstCompleted(ts) == \E t \in 1..Len(ts) : ts[t].pc = "returned"

\* `await asyncio.gather(*tasks)` resumes main once every task has returned.
GatherDone(ts) == \A t \in 1..Len(ts) : ts[t].pc = "returned"

\* Variant: the value of the task that returned first comes first, as if the
\* values were collected on completion.
Gather_FirstDoneFirst(ts) ==
    IF firstDone = 0 THEN [t \in 1..Len(ts) |-> ts[t].ret]
    ELSE <<ts[firstDone].ret>> \o
         [n \in 1..(Len(ts) - 1) |-> ts[IF n < firstDone THEN n ELSE n + 1].ret]

\* asyncio.gather(*tasks): the values of the tasks in the order of `tasks`,
\* whatever the order in which the tasks finished.
Gather(ts) == [t \in 1..Len(ts) |-> ts[t].ret]

(***************************************************************************)
(* scroll_and_extract_links, called from main at lines 137-139.            *)
(* Every call on the Render Client can raise; nothing in main catches it.  *)
(***************************************************************************)
\* context.new_page() of line 137 and page.goto(TARGET_URL) of line 18.
Navigate ==
    /\ mainpc = "goto"
    /\ \/ /\ loaded' \in Documents
          /\ mainpc' = "while"
          /\ UNCHANGED abortCause
       \/ /\ Abort("discovery")
          /\ UNCHANGED loaded
    /\ UNCHANGED <<company_links, scroll_attempts, urls, fetchVars, historyVars, extractVars>>

\* One pass of the loop body, lines 24-34: the loop test holds, the links of the
\* rendered document are collected, and the pass breaks when the target is met.
Collect ==
    /\ mainpc = "while"
    /\ LoopCondition(company_links, scroll_attempts, TARGET_COUNT)
    /\ \/ /\ company_links' = CollectInto(company_links, LocatorAll(loaded))
          /\ mainpc' = IF Cardinality(company_links') >= TARGET_COUNT THEN "return" ELSE "scroll"
          /\ UNCHANGED abortCause
       \/ /\ Abort("discovery")
          /\ UNCHANGED company_links
    /\ UNCHANGED <<loaded, scroll_attempts, urls, fetchVars, historyVars, extractVars>>

\* The loop test of line 24 fails.
ExitLoop ==
    /\ mainpc = "while"
    /\ ~LoopCondition(company_links, scroll_attempts, TARGET_COUNT)
    /\ mainpc' = "return"
    /\ UNCHANGED <<discoveryVars, fetchVars, historyVars, abortCause, extractVars>>

\* Lines 37-39: scroll to the bottom, wait for the page to settle, count the
\* attempt.  What the directory renders afterwards is up to the site.
Scroll ==
    /\ mainpc = "scroll"
    /\ \/ /\ loaded' \in Documents
          /\ scroll_attempts' = scroll_attempts + 1
          /\ mainpc' = "while"
          /\ UNCHANGED abortCause
       \/ /\ Abort("discovery")
          /\ UNCHANGED <<loaded, scroll_attempts>>
    /\ UNCHANGED <<company_links, urls, fetchVars, historyVars, extractVars>>

\* Lines 41-42: the function returns the list.  (company_links and
\* scroll_attempts stay readable until PageClose, as history of the call.)
Return ==
    /\ mainpc = "return"
    /\ urls' \in ListTruncated(company_links, TARGET_COUNT)
    /\ mainpc' = "page_close"
    /\ UNCHANGED <<loaded, company_links, scroll_attempts, fetchVars, historyVars, abortCause, extractVars>>

\* Lines 139-144: the directory page is closed, then the semaphore and the
\* empty list of results are created.
PageClose ==
    /\ mainpc = "page_close"
    /\ \/ /\ loaded' = 0
          /\ company_links' = {}
          /\ scroll_attempts' = 0
          /\ mainpc' = "for"
          /\ UNCHANGED abortCause
       \/ /\ Abort("discovery")
          /\ UNCHANGED <<loaded, company_links, scroll_attempts>>
    /\ UNCHANGED <<urls, fetchVars, historyVars, extractVars>>

(***************************************************************************)
(* main, lines 147-168.                                                    *)
(***************************************************************************)
\* Lines 147-153: the next batch exists; one coroutine per URL of the slice is
\* created and handed to gather.
StartBatch ==
    /\ mainpc = "for"
    /\ i < Len(urls)
    /\ tasks' = [t \in 1..Len(BatchSlice(urls, i)) |-> NewTask(BatchSlice(urls, i)[t])]
    /\ firstDone' = 0
    /\ mainpc' = "gather"
    /\ UNCHANGED <<discoveryVars, i, semaphore, results, historyVars, abortCause, extractVars>>

\* The range of line 147 is exhausted.
LoopDone ==
    /\ mainpc = "for"
    /\ i >= Len(urls)
    /\ mainpc' = "browser_close"
    /\ UNCHANGED <<discoveryVars, fetchVars, historyVars, abortCause, extractVars>>

\* Lines 153-154: every task has returned; gather hands over their values and
\* results is extended.
Join ==
    /\ mainpc = "gather"
    /\ GatherDone(tasks)
    /\ results' = Extend(results, Gather(tasks))
    /\ mainpc' = "to_csv"
    /\ UNCHANGED <<discoveryVars, i, tasks, semaphore, firstDone, historyVars, abortCause, extractVars>>

\* Lines 157-161: the interim save of all of results; only PermissionError is
\* caught.  The loop then moves on and the coroutines of the batch are dropped.
Checkpoint ==
    /\ mainpc = "to_csv"
    /\ \E outcome \in SinkOutcomes :
        /\ checkpoints' = Append(checkpoints,
                [rows |-> InterimRows(results, Gather(tasks)), outcome |-> outcome])
        /\ IF outcome = "ok" \/ CheckpointCaught(outcome)
           THEN /\ i' = i + BATCH_SIZE
                /\ tasks' = <<>>
                /\ mainpc' = "for"
                /\ UNCHANGED abortCause
           ELSE /\ Abort("checkpoint")
                /\ UNCHANGED <<i, tasks>>
    /\ UNCHANGED <<discoveryVars, semaphore, results, firstDone, finals, extractVars>>

\* Line 163.
BrowserClose ==
    /\ mainpc = "browser_close"
    /\ \/ /\ mainpc' = "final"
          /\ UNCHANGED abortCause
       \/ Abort("browser_close")
    /\ UNCHANGED <<discoveryVars, fetchVars, historyVars, extractVars>>

\* Lines 166-168: the final export; nothing catches its exceptions.
FinalExport ==
    /\ mainpc = "final"
    /\ \E outcome \in {"ok", "OSError"} :
        /\ finals' = Append(finals, [rows |-> results, outcome |-> outcome])
        /\ IF outcome = "ok"
           THEN mainpc' = "done" /\ UNCHANGED abortCause
           ELSE Abort("final_export")
    /\ UNCHANGED <<discoveryVars, fetchVars, checkpoints, extractVars>>

(***************************************************************************)
(* scrape_company_details, one coroutine per URL of the batch.             *)
(***************************************************************************)
Running == mainpc = "gather"

\* The calls of the try block whose exception reaches the except clause of line
\* 120: page.route and page.goto before the wait of line 63, the locator
\* queries of the extraction after it.  (The wait has its own bare except.)
BodyFaults == {"route", "goto", "query"}

\* What the wait of line 63 can do: the anchor shows up, the 3000 ms run out,
\* or the call fails in another way.
WaitOutcomes == {"found", "TimeoutError", "Error"}

\* What page.close() can do: return, or raise with the page closed or still open.
CloseOutcomes == {"ok", "fault_closed", "fault_open"}

\* Variant: an exception of the wait reaches the except clause of line 120.
AfterWait_Propagates(outcome) == IF outcome = "found" THEN "extract" ELSE "except"

\* Lines 62-65: `try: await page.wait_for_selector(...)` with `except: pass`;
\* whatever the wait did, control goes on to line 68.
AfterWait(outcome) == "extract"

\* Variant: page.close() never closes the page.
PagesAfterClose_Leak(open, outcome) == open

\* The number of pages the task has open after page.close(): a close that
\* returns has closed the page (closing a closed page does nothing); after a
\* close that raises the page is closed or still open.
PagesAfterClose(open, outcome) ==
    IF outcome = "fault_open" \/ open = 0 THEN open ELSE open - 1

\* Variant: the coroutine does not wait for the semaphore.
SemaphoreFree_NoLimit(value) == TRUE

\* asyncio.Semaphore.acquire returns at once while the value is positive and
\* waits otherwise.
SemaphoreFree(value) == value > 0

\* Variant: leaving the block does not give the permit back.
Released_Never(value) == value

\* `async with semaphore` releases the permit when the block is left, by a
\* return or by an exception: the value goes up by one.
Released(value) == value + 1

\* The task leaves `async with semaphore` with a value: the permit goes back
\* and the locals of the call are gone.
ReturnFrom(t, value, open) ==
    /\ tasks' = [tasks EXCEPT ![t].pc = "returned", ![t].ret = value, ![t].open = open,
                              ![t].waitfault = FALSE, ![t].extracted = FALSE]
    /\ semaphore' = Released(semaphore)
    /\ firstDone' = IF firstDone = 0 THEN t ELSE firstDone
    /\ UNCHANGED <<mainpc, abortCause>>

\* The task leaves `async with semaphore` with an exception: the permit goes
\* back, gather re-raises the exception in main and nothing catches it there.
RaiseFrom(t, cause, open) ==
    /\ tasks' = [tasks EXCEPT ![t].pc = "raised", ![t].open = open]
    /\ semaphore' = Released(semaphore)
    /\ Abort(cause)
    /\ UNCHANGED firstDone

\* Line 48: `async with semaphore`.  The coroutines start in the order of the
\* list and asyncio wakes waiters first come, first served.
Acquire(t) ==
    /\ Running
    /\ tasks[t].pc = "pending"
    /\ SemaphoreFree(semaphore)
    /\ \A u \in 1..(t - 1) : tasks[u].pc # "pending"
    /\ semaphore' = semaphore - 1
    /\ tasks' = [tasks EXCEPT ![t].pc = "new_page"]
    /\ UNCHANGED <<mainpc, discoveryVars, i, results, firstDone, historyVars, abortCause, extractVars>>

\* Line 50: context.new_page(), outside the try statement.
NewPage(t) ==
    /\ Running
    /\ tasks[t].pc = "new_page"
    /\ \/ /\ tasks' = [tasks EXCEPT ![t].pc = "try", ![t].tries = @ + 1, ![t].open = @ + 1,
                                    ![t].waitfault = FALSE, ![t].extracted = FALSE]
          /\ UNCHANGED <<mainpc, semaphore, firstDone, abortCause>>
       \/ RaiseFrom(t, "new_page", tasks[t].open)
    /\ UNCHANGED <<discoveryVars, i, results, historyVars, extractVars>>

\* Lines 52-59: the try block up to the navigation: page.route, the jitter
\* sleep and page.goto.
Try(t) ==
    /\ Running
    /\ tasks[t].pc = "try"
    /\ \/ /\ tasks' = [tasks EXCEPT ![t].pc = "wait"]
       \/ \E fault \in BodyFaults \ {"query"} :
            /\ tasks' = [tasks EXCEPT ![t].pc = "except", ![t].fails = @ + 1]
    /\ UNCHANGED <<mainpc, discoveryVars, i, semaphore, results, firstDone, historyVars, abortCause, extractVars>>

\* Lines 61-65: the wait for a LinkedIn anchor.
Wait(t) ==
    /\ Running
    /\ tasks[t].pc = "wait"
    /\ \E outcome \in WaitOutcomes :
        tasks' = [tasks EXCEPT ![t].pc = AfterWait(outcome),
                               ![t].waitfault = (outcome # "found"),
                               ![t].fails = IF AfterWait(outcome) = "except" THEN @ + 1 ELSE @]
    /\ UNCHANGED <<mainpc, discoveryVars, i, semaphore, results, firstDone, historyVars, abortCause, extractVars>>

\* Lines 67-107: the locator queries that read the name, the batch, the
\* description and the founders.  (waitfault records what the wait did for as
\* long as the extraction has not run.)
Extract(t) ==
    /\ Running
    /\ tasks[t].pc = "extract"
    /\ \/ /\ tasks' = [tasks EXCEPT ![t].pc = "close", ![t].extracted = TRUE,
                                    ![t].waitfault = FALSE]
       \/ \E fault \in BodyFaults \ {"route", "goto"} :
            /\ tasks' = [tasks EXCEPT ![t].pc = "except", ![t].fails = @ + 1,
                                      ![t].waitfault = FALSE]
    /\ UNCHANGED <<mainpc, discoveryVars, i, semaphore, results, firstDone, historyVars, abortCause, extractVars>>

\* Lines 109-118: page.close() inside the try block, then the return of the
\* record; an exception of the close reaches the except clause like any other.
Close(t) ==
    /\ Running
    /\ tasks[t].pc = "close"
    /\ \E outcome \in CloseOutcomes :
        IF outcome = "ok"
        THEN ReturnFrom(t, Some(SuccessRecord(tasks[t].url)),
                        PagesAfterClose(tasks[t].open, outcome))
        ELSE /\ tasks' = [tasks EXCEPT ![t].pc = "except", ![t].fails = @ + 1,
                                       ![t].open = PagesAfterClose(@, outcome)]
             /\ UNCHANGED <<mainpc, semaphore, firstDone, abortCause>>
    /\ UNCHANGED <<discoveryVars, i, results, historyVars, extractVars>>

\* Lines 120-124: the except clause closes the page, then returns the
\* placeholder or goes to sleep.
Except(t) ==
    /\ Running
    /\ tasks[t].pc = "except"
    /\ \E outcome \in CloseOutcomes :
        IF outcome = "ok"
        THEN LET out == ExceptOutcome(tasks[t].attempt, tasks[t].url) IN
                IF out.pc = "returned"
                THEN ReturnFrom(t, out.ret, PagesAfterClose(tasks[t].open, outcome))
                ELSE /\ tasks' = [tasks EXCEPT ![t].pc = out.pc,
                                               ![t].open = PagesAfterClose(@, outcome)]
                     /\ UNCHANGED <<mainpc, semaphore, firstDone, abortCause>>
        ELSE RaiseFrom(t, "handler_close", PagesAfterClose(tasks[t].open, outcome))
    /\ UNCHANGED <<discoveryVars, i, results, historyVars, extractVars>>

\* Line 124 and the next round of `for attempt in range(2)`: when the range is
\* used up the function falls off its end and returns None.
Sleep(t) ==
    /\ Running
    /\ tasks[t].pc = "sleep"
    /\ IF tasks[t].attempt + 1 < ATTEMPT_RANGE
       THEN /\ tasks' = [tasks EXCEPT ![t].pc = "new_page", ![t].attempt = @ + 1]
            /\ UNCHANGED <<mainpc, semaphore, firstDone, abortCause>>
       ELSE ReturnFrom(t, None, tasks[t].open)
    /\ UNCHANGED <<discoveryVars, i, results, historyVars, extractVars>>

(***************************************************************************)
(* The founder enrichment of one attempt, lines 82-107.                    *)
(***************************************************************************)
\* Lines 86-94: the LinkedIn anchors of the document, cleaned and deduplicated.
ExtractLinks ==
    /\ extractpc = "links"
    /\ founder_links' = FounderLinks(SelectSeq(li_hrefs, LinkSelectorMatches), <<>>)
    /\ extractpc' = "names"
    /\ UNCHANGED <<mainpc, discoveryVars, fetchVars, historyVars, abortCause,
                   li_hrefs, name_texts, founder_names>>

\* Lines 96-107: the texts of the name elements, filtered and deduplicated.
ExtractNames ==
    /\ extractpc = "names"
    /\ founder_names' = FounderNames(name_texts, <<>>)
    /\ extractpc' = "done"
    /\ UNCHANGED <<mainpc, discoveryVars, fetchVars, historyVars, abortCause,
                   li_hrefs, name_texts, founder_links>>

Tasks == 1..Len(tasks)

DiscoveryNext ==
    \/ Navigate
    \/ Collect
    \/ ExitLoop
    \/ Scroll
    \/ Return
    \/ PageClose

FetchNext ==
    \/ StartBatch
    \/ LoopDone
    \/ Join
    \/ Checkpoint
    \/ BrowserClose
    \/ FinalExport
    \/ \E t \in Tasks : Acquire(t)
    \/ \E t \in Tasks : NewPage(t)
    \/ \E t \in Tasks : Try(t)
    \/ \E t \in Tasks : Wait(t)
    \/ \E t \in Tasks : Extract(t)
    \/ \E t \in Tasks : Close(t)
    \/ \E t \in Tasks : Except(t)
    \/ \E t \in Tasks : Sleep(t)

Next == DiscoveryNext \/ FetchNext

\* The whole program.
Spec == Init /\ [][Next]_vars

(***************************************************************************)
(* The two phases on their own.  The discovery phase runs the program up   *)
(* to the creation of the first batch.  The fetch phase starts where       *)
(* scroll_and_extract_links has returned: the state of the program at line *)
(* 147, with the returned list drawn from a set of inputs.                 *)
(***************************************************************************)
DiscoveryPhaseNext == DiscoveryNext \/ StartBatch \/ LoopDone

DiscoverySpec == Init /\ [][DiscoveryPhaseNext]_vars

\* The loop is not left waiting: the event loop resumes main after each await.
DiscoveryLive == DiscoverySpec /\ WF_vars(DiscoveryPhaseNext)

ProfileUrl(j) == FullUrl(ProfileHref(j))

Reverse(sq) == [n \in 1..Len(sq) |-> sq[Len(sq) + 1 - n]]

\* Lists that scroll_and_extract_links can return: n distinct profile URLs,
\* 0 <= n <= TARGET_COUNT, in listing order or in the opposite order.
FetchInputs ==
    UNION {{[j \in 1..n |-> ProfileUrl(j)], Reverse([j \in 1..n |-> ProfileUrl(j)])} :
            n \in 0..TARGET_COUNT}

FetchInit ==
    /\ mainpc = "for"
    /\ loaded = 0
    /\ company_links = {}
    /\ scroll_attempts = 0
    /\ urls \in FetchInputs
    /\ i = 0
    /\ tasks = <<>>
    /\ semaphore = CONCURRENCY_LIMIT
    /\ results = <<>>
    /\ firstDone = 0
    /\ checkpoints = <<>>
    /\ finals = <<>>
    /\ abortCause = "none"
    /\ extractpc = "idle"
    /\ li_hrefs = <<>>
    /\ name_texts = <<>>
    /\ founder_links = <<>>
    /\ founder_names = <<>>

FetchSpec == FetchInit /\ [][FetchNext]_vars

(***************************************************************************)
(* The founder enrichment on its own: one task is at line 82 of its first  *)
(* attempt, and the profile document it reads is drawn from a set of       *)
(* inputs: documents with one LinkedIn anchor or the same anchor twice and *)
(* no name element, and documents with one name element or the same text   *)
(* twice and no anchor.                                                    *)
(***************************************************************************)
ProfileDocuments ==
    {[hrefs |-> hs, texts |-> <<>>] : hs \in UNION {{<<h>>, <<h, h>>} : h \in Hrefs}}
    \cup {[hrefs |-> <<>>, texts |-> ts] : ts \in UNION {{<<x>>, <<x, x>>} : x \in InnerTexts}}

ExtractInit ==
    /\ mainpc = "gather"
    /\ loaded = 0
    /\ company_links = {}
    /\ scroll_attempts = 0
    /\ urls = <<ProfileUrl(1)>>
    /\ i = 0
    /\ tasks = <<[NewTask(ProfileUrl(1)) EXCEPT !.pc = "extract", !.tries = 1, !.open = 1]>>
    /\ semaphore = CONCURRENCY_LIMIT - 1
    /\ results = <<>>
    /\ firstDone = 0
    /\ checkpoints = <<>>
    /\ finals = <<>>
    /\ abortCause = "none"
    /\ extractpc = "links"
    /\ \E doc \in ProfileDocuments :
        /\ li_hrefs = doc.hrefs
        /\ name_texts = doc.texts
    /\ founder_links = <<>>
    /\ founder_names = <<>>

ExtractNext == ExtractLinks \/ ExtractNames

ExtractSpec == ExtractInit /\ [][ExtractNext]_vars

(***************************************************************************)
(* Properties.                                                             *)
(***************************************************************************)
Range(sq) == {sq[n] : n \in 1..Len(sq)}

IsFailure(r) == r.CompanyName = "Error"

\* The URL a record stands for: the URL field of a placeholder, and for an
\* extracted record the profile whose heading is the record's company name.
RecordUrl(r) == IF IsFailure(r) THEN r.URL ELSE <<ORIGIN, PROFILE_PREFIX, r.CompanyName>>

RecordsOf(u) == {k \in 1..Len(results) : RecordUrl(results[k]) = u}

\* Attempting: the task has a session (or is opening or closing one).
Attempting ==
    {t \in Tasks : tasks[t].pc \in {"new_page", "try", "wait", "extract", "close", "except"}}

\* C1: when the run finishes, results holds exactly one record for every URL
\* that was handed to the fetch phase and no other record.
C1_OneRecordPerUrl ==
    mainpc = "done" =>
        /\ Len(results) = Len(urls)
        /\ \A n \in 1..Len(urls) : Cardinality(RecordsOf(urls[n])) = 1

\* A finished run over TARGET_COUNT URLs with both kinds of record.
C1_Witness ==
    /\ mainpc = "done"
    /\ Len(urls) = TARGET_COUNT
    /\ \E k \in 1..Len(results) : IsFailure(results[k])
    /\ \E k \in 1..Len(results) : ~IsFailure(results[k])

\* C2: the number of tasks in the Attempting state never exceeds
\* CONCURRENCY_LIMIT.
C2_BoundedAttempting == Cardinality(Attempting) <= CONCURRENCY_LIMIT

\* The limit is reached while another task of the batch waits for a permit.
C2_Witness ==
    /\ Cardinality(Attempting) = CONCURRENCY_LIMIT
    /\ \E t \in Tasks : tasks[t].pc = "pending"

\* C3: a URL is attempted at most twice, the second time only after the first
\* attempt failed; a placeholder is returned only after two failed attempts and
\* carries the task's URL; a task whose two attempts failed returns the
\* placeholder, and results then holds exactly one placeholder for that URL.
C3_RetryPolicy ==
    \A t \in Tasks :
        /\ tasks[t].tries <= 2
        /\ tasks[t].tries <= tasks[t].fails + 1
        /\ (tasks[t].pc = "returned" /\ tasks[t].ret # None /\ IsFailure(tasks[t].ret[1])) =>
              /\ tasks[t].tries = 2
              /\ tasks[t].fails = 2
              /\ tasks[t].ret = Some(FailureRecord(tasks[t].url))
        /\ (tasks[t].pc = "returned" /\ tasks[t].fails = 2) =>
              tasks[t].ret = Some(FailureRecord(tasks[t].url))
        /\ (mainpc = "to_csv" /\ tasks[t].fails = 2) =>
              Cardinality({k \in 1..Len(results) : results[k] = FailureRecord(tasks[t].url)}) = 1

\* A batch has joined with a task whose two attempts both failed.
C3_Witness ==
    /\ mainpc = "to_csv"
    /\ \E t \in Tasks :
        /\ tasks[t].tries = 2
        /\ tasks[t].fails = 2
        /\ \E k \in 1..Len(results) : results[k] = FailureRecord(tasks[t].url)

\* C4: no fault of a Render Client call made for one URL leaves the fetch
\* engine: no task ends with an exception.
C4_FaultsContained == \A t \in Tasks : tasks[t].pc # "raised"

CeilDiv(n, b) == (n + b - 1) \div b

\* C5: the k-th interim save is given the first min(k * BATCH_SIZE, N) records
\* of results, all that results held at that time; one save is attempted after
\* each batch join, ceil(N / BATCH_SIZE) in all.
C5_CheckpointCadence ==
    /\ \A k \in 1..Len(checkpoints) :
          LET rows == checkpoints[k].rows IN
            /\ Len(rows) = Min(k * BATCH_SIZE, Len(urls))
            /\ Len(rows) <= Len(results)
            /\ rows = SubSeq(results, 1, Len(rows))
    /\ mainpc \in {"for", "gather", "to_csv"} => Len(checkpoints) * BATCH_SIZE = i
    /\ mainpc \in {"browser_close", "final", "done"} =>
          Len(checkpoints) = CeilDiv(Len(urls), BATCH_SIZE)

\* A finished run whose last batch was not full.
C5_Witness ==
    /\ mainpc = "done"
    /\ Len(urls) > BATCH_SIZE
    /\ Len(urls) % BATCH_SIZE # 0
    /\ Len(checkpoints) = CeilDiv(Len(urls), BATCH_SIZE)
    /\ Len(checkpoints[1].rows) = BATCH_SIZE
    /\ Len(checkpoints[Len(checkpoints)].rows) = Len(urls)

\* C6: a fault of an interim save never ends the run.
C6_CheckpointFaultSwallowed == abortCause # "checkpoint"

\* C7: a run is not ended before its final export by a fault of a call made for
\* one URL, nor by a fault of an interim save.
C7_NoEarlyEnd ==
    mainpc = "aborted" => abortCause \notin {"new_page", "handler_close", "checkpoint"}

InDiscovery == mainpc \in {"goto", "while", "scroll", "return"}

\* C8: the list that discovery returns has at most TARGET_COUNT entries, they
\* are pairwise distinct, each is the origin followed by an href of the
\* directory that begins with the profile prefix; the tasks created are for
\* URLs of that list, so no more than TARGET_COUNT URLs are fetched.
C8_DiscoveryResult ==
    /\ Len(urls) <= TARGET_COUNT
    /\ \A m, n \in 1..Len(urls) : m # n => urls[m] # urls[n]
    /\ \A n \in 1..Len(urls) :
          /\ Len(urls[n]) >= 2
          /\ urls[n][1] = ORIGIN
          /\ urls[n][2] = PROFILE_PREFIX
          /\ Tail(urls[n]) \in Range(Listing)
    /\ \A t \in Tasks : tasks[t].url \in Range(urls)
    /\ Len(tasks) <= Len(urls)

\* Discovery has returned a full list after a pass that collected more links
\* than the target.
C8_Witness ==
    /\ mainpc = "page_close"
    /\ Cardinality(company_links) > TARGET_COUNT
    /\ Len(urls) = TARGET_COUNT

\* C9: the discovery loop ends; it makes no more than MAX_SCROLL_ATTEMPTS
\* scroll steps and none once the target is met; when it ends below the target
\* the whole collected set is returned, the run has not failed and goes on to
\* the batch loop.
C9_DiscoveryTerminates ==
    /\ [](scroll_attempts <= MAX_SCROLL_ATTEMPTS)
    /\ [](mainpc \in {"while", "scroll"} => Cardinality(company_links) < TARGET_COUNT)
    /\ [](mainpc = "return" =>
            /\ abortCause = "none"
            /\ \/ Cardinality(company_links) >= TARGET_COUNT
               \/ scroll_attempts = MAX_SCROLL_ATTEMPTS)
    /\ [](mainpc = "page_close" /\ Cardinality(company_links) < TARGET_COUNT =>
            /\ Range(urls) = company_links
            /\ Len(urls) = Cardinality(company_links))
    /\ [][mainpc = "page_close" /\ mainpc' # "aborted" => mainpc' = "for"]_vars
    /\ <>(~InDiscovery)

\* The ceiling was hit below the target and the smaller set was returned.
C9_Witness ==
    /\ mainpc = "page_close"
    /\ scroll_attempts = MAX_SCROLL_ATTEMPTS
    /\ 0 < Cardinality(company_links)
    /\ Cardinality(company_links) < TARGET_COUNT
    /\ Range(urls) = company_links

\* The place of the record of URL u in results.
PosOf(u) == CHOOSE k \in 1..Len(results) : RecordUrl(results[k]) = u

\* C10 as stated: within a batch the records are in completion order; the
\* record of the task that returned first precedes the record of every task
\* submitted before it.
C10_CompletionOrder ==
    mainpc = "to_csv" =>
        \A a, b \in Tasks :
            (a < b /\ firstDone = b) => PosOf(tasks[b].url) < PosOf(tasks[a].url)

\* C10, amended: the records are in submission order, the k-th record of
\* results is the record of the k-th URL, also when a task submitted later
\* returned first.
C10_SubmissionOrder ==
    /\ Len(results) <= Len(urls)
    /\ \A k \in 1..Len(results) : RecordUrl(results[k]) = urls[k]

\* A batch has joined in which a task returned before one submitted earlier.
C10_Witness ==
    /\ mainpc = "to_csv"
    /\ firstDone > 1
    /\ \A t \in Tasks : RecordsOf(tasks[t].url) # {}

\* The tasks that are inside `async with semaphore`; Retrying are those of them
\* that sleep between their two attempts.
PermitHolders == {t \in Tasks : tasks[t].pc \notin {"pending", "returned", "raised"}}

Retrying == {t \in Tasks : tasks[t].pc = "sleep"}

\* C13: a task takes one permit before its first attempt and holds it through
\* the first attempt, the backoff and the second attempt until it ends: the
\* permits out are those of the tasks between acquire and end, the tasks
\* attempting or retrying never outnumber CONCURRENCY_LIMIT, and all permits
\* are back once the batch has joined.
C13_PermitHeldThroughRetry ==
    /\ semaphore >= 0
    /\ semaphore + Cardinality(PermitHolders) = CONCURRENCY_LIMIT
    /\ Cardinality(Attempting) + Cardinality(Retrying) <= CONCURRENCY_LIMIT
    /\ \A t \in Tasks : tasks[t].pc = "pending" => tasks[t].tries = 0
    /\ mainpc \in {"for", "to_csv", "browser_close", "final", "done"} =>
            semaphore = CONCURRENCY_LIMIT

\* Every permit is out, one of them with a task that sleeps before its second
\* attempt, and another task of the batch waits.
C13_Witness ==
    /\ semaphore = 0
    /\ \E t \in Tasks : tasks[t].pc = "sleep"
    /\ \E t \in Tasks : tasks[t].pc = "pending"

\* C14: while a task of a batch has not returned, main is at the gather of that
\* batch (or has been ended by an exception): the task's URL is of the slice at
\* i, results holds the records of all the URLs before i, and one interim save
\* has been attempted for each earlier batch.
C14_BatchesSequential ==
    \A t \in Tasks :
        tasks[t].pc # "returned" =>
            /\ mainpc \in {"gather", "aborted"}
            /\ i + t <= Len(urls) /\ t <= BATCH_SIZE
            /\ tasks[t].url = urls[i + t]
            /\ Len(results) = i
            /\ \A n \in 1..i : RecordUrl(results[n]) = urls[n]
            /\ Len(checkpoints) * BATCH_SIZE = i

\* A task of the second batch is in an attempt.
C14_Witness ==
    /\ i = BATCH_SIZE
    /\ Len(checkpoints) = 1
    /\ \E t \in Tasks : tasks[t].pc = "try"

\* C15: every task that was created ends with a record: once the run is over,
\* finished or ended by an exception, no task of the batch is left waiting for
\* a permit, inside an attempt or between attempts.
C15_EveryTaskEnds ==
    mainpc \in {"done", "aborted"} => \A t \in Tasks : tasks[t].pc = "returned"

RECURSIVE OpenPages(_)
OpenPages(ts) == IF ts = <<>> THEN 0 ELSE Head(ts).open + OpenPages(Tail(ts))

\* C16: a task has at most one page open; it has none before its first attempt,
\* between its attempts and after it has returned; the pages open never
\* outnumber CONCURRENCY_LIMIT and none is open once the batch has joined.
C16_PagesClosed ==
    /\ \A t \in Tasks :
        /\ tasks[t].open <= 1
        /\ tasks[t].pc \in {"pending", "new_page", "sleep", "returned"} => tasks[t].open = 0
    /\ OpenPages(tasks) <= CONCURRENCY_LIMIT
    /\ mainpc \in {"for", "to_csv", "browser_close", "final", "done"} => OpenPages(tasks) = 0

\* A task has returned after two attempts, each with a page of its own, and as
\* many pages as there are permits are open in other tasks.
C16_Witness ==
    /\ \E t \in Tasks : tasks[t].pc = "returned" /\ tasks[t].tries = 2
    /\ OpenPages(tasks) = CONCURRENCY_LIMIT

\* C17: the step that ends the wait for a LinkedIn anchor, whatever the wait
\* did, takes the task to the extraction of the same attempt: no failure is
\* counted, no new attempt or page is begun, the task neither sleeps nor
\* returns; a task whose wait failed is at the extraction with as many
\* failures as it had attempts before this one.
C17_WaitFaultIgnored ==
    /\ [][\A t \in Tasks :
            (tasks[t].pc = "wait" /\ t \in DOMAIN tasks' /\ tasks'[t] # tasks[t]) =>
                /\ tasks'[t].pc = "extract"
                /\ tasks'[t].fails = tasks[t].fails
                /\ tasks'[t].attempt = tasks[t].attempt
                /\ tasks'[t].tries = tasks[t].tries
                /\ tasks'[t].ret = None]_vars
    /\ [](\A t \in Tasks :
            tasks[t].waitfault => tasks[t].pc = "extract" /\ tasks[t].fails = tasks[t].attempt)

\* The wait of a first attempt failed and the task is at the extraction.
C17_Witness ==
    \E t \in Tasks :
        /\ tasks[t].waitfault
        /\ tasks[t].pc = "extract"
        /\ tasks[t].attempt = 0
        /\ tasks[t].fails = 0

IsPrefix(a, b) == Len(a) <= Len(b) /\ SubSeq(b, 1, Len(a)) = a

\* C18: results only grows at its end: every step leaves the old list as a
\* prefix of the new one, and a step that writes a file leaves it as it is; the
\* rows given to an interim save are a prefix of the rows given to the next
\* one; the final export gets the rows of the last interim save (no rows when
\* there was no batch).
C18_AppendOnly ==
    /\ [][IsPrefix(results, results')]_vars
    /\ [][(checkpoints' # checkpoints \/ finals' # finals) => results' = results]_vars
    /\ [](\A k \in 1..(Len(checkpoints) - 1) :
            IsPrefix(checkpoints[k].rows, checkpoints[k + 1].rows))
    /\ [](\A k \in 1..Len(finals) :
            finals[k].rows = IF checkpoints = <<>> THEN <<>>
                             ELSE checkpoints[Len(checkpoints)].rows)

\* A finished run of two batches: two interim saves, then the final export.
C18_Witness ==
    /\ mainpc = "done"
    /\ Len(checkpoints) = 2
    /\ Len(finals) = 1
    /\ Len(results) = TARGET_COUNT

\* Accepted by token: the text splits into one to three words and none of the
\* words is a word of the blacklist.
AcceptedByToken(text) ==
    /\ Len(Split(text)) \in 1..3
    /\ \A n \in 1..Len(Split(text)) : \A k \in 1..Len(blacklist) : Split(text)[n] # blacklist[k]

\* C11: a candidate text, trimmed, is taken as a founder name if and only if it
\* splits on whitespace into one to three words and no word is equal to a word
\* of the blacklist.
C11_TokenFilter ==
    extractpc = "done" =>
        \A n \in 1..Len(name_texts) :
            Strip(name_texts[n]) \in Range(founder_names) <=> AcceptedByToken(Strip(name_texts[n]))

\* C12: cleaning a cleaned LinkedIn link gives the same link again.
C12_CleanLinkIdempotent ==
    \A k \in 1..Len(founder_links) : CleanLink(founder_links[k]) = founder_links[k]

\* A link was collected from an href that had a query to cut off and slashes
\* to strip before it.
C12_Witness ==
    /\ extractpc = "done"
    /\ Len(founder_links) = 1
    /\ CutAtQuery(li_hrefs[1]) # li_hrefs[1]
    /\ founder_links[1] # CutAtQuery(li_hrefs[1])

\* C19: when scroll_and_extract_links returns fewer URLs than the target, every
\* profile link of the document rendered at that moment is in the list.
C19_LastScrollCollected ==
    (mainpc = "page_close" /\ Len(urls) < TARGET_COUNT) =>
        CollectInto({}, LocatorAll(loaded)) \subseteq Range(urls)

\* C20: an attempt whose extraction has completed ends with the return of its
\* record: it does not reach the except clause, the backoff or an exception.
C20_ExtractedDataKept ==
    \A t \in Tasks : tasks[t].extracted => tasks[t].pc = "close"

====
